---- MODULE Spec2Model ----
(***************************************************************************)
(* Large-document chunking, per-chunk question budgets and the generation  *)
(* and backfill loop of the quiz generator                                 *)
(* (app/services/text_chunking.py, app/services/gemini_service.py).        *)
(*                                                                         *)
(* A text is a sequence of one-character strings.  The external model call *)
(* behind _generate_from_single_text is a nondeterministic choice between  *)
(* an exception and a non-empty list of questions of any length.           *)
(***************************************************************************)
EXTENDS Integers, Sequences, FiniteSets, TLC

VARIABLES
    text,               \* the document handed to the entry point
    num_questions,      \* requested number of questions
    max_chunk_size,     \* settings.GEMINI_MAX_INPUT_CHARS / max_chunk_size
    enable_chunking,    \* settings.ENABLE_TEXT_CHUNKING
    strategy,           \* smart_chunk_text strategy
    pc,                 \* position of the running call
    path,               \* "none", "single" or "chunked"
    chunks,             \* list of chunks
    questions_per_chunk,\* list of budgets
    all_questions,      \* accumulator of the chunked path
    idx,                \* loop position (first pass: chunk number, backfill: rank)
    remaining,          \* backfill shortfall variable
    ranked,             \* chunk numbers sorted by size, largest first
    calls,              \* history of the calls of _generate_from_single_text
    result,             \* value returned to the caller
    paragraphs,         \* chunk_by_paragraphs: the list it iterates over
    current_chunk       \* chunk_by_paragraphs: the chunk being accumulated

vars == <<text, num_questions, max_chunk_size, enable_chunking, strategy,
          pc, path, chunks, questions_per_chunk, all_questions, idx, remaining,
          ranked, calls, result, paragraphs, current_chunk>>

----------------------------------------------------------------------------
(* Bounds of the model *)

MaxWords == 3          \* words (letter runs) per document
MaxQuestions == 4      \* largest requested number of questions
MaxExtra == 1          \* how many questions more than asked a call may return
MaxAllocChunks == 3    \* chunks per list in the allocation specification
MaxAllocQuestions == 6 \* largest total in the allocation specification
MaxScenarioWords == 3  \* words per paragraph in the 6000-character scenario

(* Program constant: chunks of at most this trimmed length are dropped *)
MinChunkLen == 50

(* Program constant: settings.GEMINI_MAX_INPUT_CHARS *)
GEMINI_MAX_INPUT_CHARS == 4000

(* Input alphabets *)
Letters == <<"a", "b", "c", "d", "e">>
WordLens == {20, 40, 70}
Seps == {<<"\n", "\n">>, <<".", " ">>, <<"!", " ">>, <<",", " ">>, <<" ">>}
Tails == {<< >>, <<" ">>}
MaxChunkSizes == {60, 70, 100}
AllocLens == {1, 51, 56, 120}
AllocTotals == (1..MaxAllocQuestions) \cup {22}

----------------------------------------------------------------------------
(* Small helpers *)

Min(a, b) == IF a <= b THEN a ELSE b
Max(a, b) == IF a >= b THEN a ELSE b
SetMin(S) == CHOOSE x \in S : \A y \in S : x <= y
SetMax(S) == 0 - SetMin({0 - x : x \in S})

RECURSIVE SumSeq(_)
SumSeq(s) == IF s = << >> THEN 0 ELSE Head(s) + SumSeq(Tail(s))

RECURSIVE Concat(_)
Concat(ss) == IF ss = << >> THEN << >> ELSE Head(ss) \o Concat(Tail(ss))

Run(c, n) == [i \in 1..n |-> c]

----------------------------------------------------------------------------
(* Python string primitives *)

IsSpace(c) == c \in {" ", "\n"}
IsTerminal(c) == c \in {".", "!", "?"}

\* str.strip()
Strip(s) ==
    LET keep == {i \in 1..Len(s) : ~IsSpace(s[i])}
    IN IF keep = {} THEN << >> ELSE SubSeq(s, SetMin(keep), SetMax(keep))

\* last position of the run of characters satisfying a class that starts at p
SpaceRunEnd(s, p) ==
    LET stops == {j \in p..Len(s) : ~IsSpace(s[j])}
    IN IF stops = {} THEN Len(s) ELSE SetMin(stops) - 1
TerminalRunEnd(s, p) ==
    LET stops == {j \in p..Len(s) : ~IsTerminal(s[j])}
    IN IF stops = {} THEN Len(s) ELSE SetMin(stops) - 1

\* end of the match of  \n\s*\n|\n{2,}  starting at p, or 0 when there is none
ParagraphBreakEnd(s, p) ==
    IF s[p] # "\n" THEN 0
    ELSE LET nl == {j \in (p+1)..SpaceRunEnd(s, p) : s[j] = "\n"}
         IN IF nl = {} THEN 0 ELSE SetMax(nl)

\* end of the match of  [.!?]+\s+  starting at p, or 0 when there is none
SentenceBreakEnd(s, p) ==
    IF ~IsTerminal(s[p]) THEN 0
    ELSE LET r == TerminalRunEnd(s, p)
         IN IF r < Len(s) /\ IsSpace(s[r+1]) THEN SpaceRunEnd(s, r+1) ELSE 0

\* end of the occurrence of ', ' starting at p, or 0
CommaBreakEnd(s, p) ==
    IF s[p] = "," /\ p < Len(s) /\ s[p+1] = " " THEN p + 1 ELSE 0

\* re.split(r'\n\s*\n|\n{2,}', s)
RECURSIVE SplitParagraphs(_)
SplitParagraphs(s) ==
    LET starts == {p \in 1..Len(s) : ParagraphBreakEnd(s, p) > 0}
    IN IF starts = {} THEN <<s>>
       ELSE LET p == SetMin(starts)
            IN <<SubSeq(s, 1, p-1)>> \o
               SplitParagraphs(SubSeq(s, ParagraphBreakEnd(s, p) + 1, Len(s)))

\* re.split(r'[.!?]+\s+', s)
RECURSIVE SplitSentences(_)
SplitSentences(s) ==
    LET starts == {p \in 1..Len(s) : SentenceBreakEnd(s, p) > 0}
    IN IF starts = {} THEN <<s>>
       ELSE LET p == SetMin(starts)
            IN <<SubSeq(s, 1, p-1)>> \o
               SplitSentences(SubSeq(s, SentenceBreakEnd(s, p) + 1, Len(s)))

\* s.split(', ')
RECURSIVE SplitCommas(_)
SplitCommas(s) ==
    LET starts == {p \in 1..Len(s) : CommaBreakEnd(s, p) > 0}
    IN IF starts = {} THEN <<s>>
       ELSE LET p == SetMin(starts)
            IN <<SubSeq(s, 1, p-1)>> \o
               SplitCommas(SubSeq(s, CommaBreakEnd(s, p) + 1, Len(s)))

\* s.split(): the maximal runs of non-whitespace characters
RECURSIVE SplitWords(_)
SplitWords(s) ==
    LET t == Strip(s)
    IN IF t = << >> THEN << >>
       ELSE LET sp == {j \in 1..Len(t) : IsSpace(t[j])}
            IN IF sp = {} THEN <<t>>
               ELSE <<SubSeq(t, 1, SetMin(sp) - 1)>> \o
                    SplitWords(SubSeq(t, SetMin(sp), Len(t)))

\* [chunk for chunk in chunks if len(chunk.strip()) > min_len]; the code's
\* min_len is the literal 50 in both places
FilterShortNone(cs, min_len) == cs

FilterShort(cs, min_len) == SelectSeq(cs, LAMBDA c : Len(Strip(c)) > min_len)

----------------------------------------------------------------------------
(* TextChunkingService *)

\* word[:max_size]
TruncateWord(word, max_size) == SubSeq(word, 1, Min(Len(word), max_size))

\* current_chunk += sep + piece if current_chunk else piece
JoinPiece(cur, sep, piece) ==
    IF cur # << >> THEN cur \o sep \o piece ELSE piece

\* variant: the trailing chunk is put in front of the list
FlushChunkFirst(cs, cur) ==
    IF cur # << >> THEN <<Strip(cur)>> \o cs ELSE cs

\* the trailing "if current_chunk: chunks.append(current_chunk.strip())"
FlushChunk(cs, cur) ==
    IF cur # << >> THEN Append(cs, Strip(cur)) ELSE cs

\* the loop of _split_by_words, from word number i on
RECURSIVE WordsLoop(_, _, _, _, _)
WordsLoop(words, i, cs, cur, max_size) ==
    IF i > Len(words) THEN FlushChunk(cs, cur)
    ELSE LET word == words[i]
         IN IF Len(cur) + Len(word) > max_size
            THEN IF cur # << >>
                 THEN WordsLoop(words, i+1, Append(cs, Strip(cur)),
                                word, max_size)
                 ELSE WordsLoop(words, i+1,
                                Append(cs, TruncateWord(word, max_size)),
                                cur, max_size)
            ELSE WordsLoop(words, i+1, cs,
                           JoinPiece(cur, <<" ">>, word), max_size)

_split_by_words(t, max_size) == WordsLoop(SplitWords(t), 1, << >>, << >>, max_size)

\* the loop of _split_long_sentence, from part number i on
RECURSIVE PartsLoop(_, _, _, _, _)
PartsLoop(parts, i, cs, cur, max_size) ==
    IF i > Len(parts) THEN FlushChunk(cs, cur)
    ELSE LET part == parts[i]
         IN IF Len(cur) + Len(part) > max_size
            THEN IF cur # << >>
                 THEN PartsLoop(parts, i+1, Append(cs, Strip(cur)),
                                part, max_size)
                 ELSE PartsLoop(parts, i+1,
                                cs \o _split_by_words(part, max_size),
                                cur, max_size)
            ELSE PartsLoop(parts, i+1, cs,
                           JoinPiece(cur, <<",", " ">>, part), max_size)

_split_long_sentence(sentence, max_size) ==
    PartsLoop(SplitCommas(sentence), 1, << >>, << >>, max_size)

\* the loop of chunk_by_sentences, from sentence number i on
RECURSIVE SentencesLoop(_, _, _, _, _)
SentencesLoop(sentences, i, cs, cur, max_size) ==
    IF i > Len(sentences) THEN FlushChunk(cs, cur)
    ELSE LET sentence == sentences[i]
         IN IF Len(cur) + Len(sentence) > max_size
            THEN IF cur # << >>
                 THEN SentencesLoop(sentences, i+1,
                                    Append(cs, Strip(cur)),
                                    sentence, max_size)
                 ELSE SentencesLoop(sentences, i+1,
                                    cs \o _split_long_sentence(sentence, max_size),
                                    cur, max_size)
            ELSE SentencesLoop(sentences, i+1, cs,
                               JoinPiece(cur, <<".", " ">>, sentence),
                               max_size)

\* chunk_by_sentences before its final filter
SentenceChunksRaw(t, max_size) ==
    SentencesLoop(SplitSentences(t), 1, << >>, << >>, max_size)

\* chunk_by_sentences with the threshold of its final filter as a parameter
SentenceChunks(t, max_size, min_len) ==
    FilterShort(SentenceChunksRaw(t, max_size), min_len)

chunk_by_sentences(t, max_size) == SentenceChunks(t, max_size, MinChunkLen)

\* variant: an overflowing paragraph is not carried into the next chunk
ParagraphStepDropsOverflow(cs, cur, raw, max_size, min_len) ==
    LET paragraph == Strip(raw)
    IN IF paragraph = << >> THEN [cs |-> cs, cur |-> cur]
       ELSE IF Len(cur) + Len(paragraph) > max_size
       THEN IF cur # << >>
            THEN [cs |-> Append(cs, Strip(cur)), cur |-> << >>]
            ELSE [cs |-> cs \o SentenceChunks(paragraph, max_size, min_len),
                  cur |-> cur]
       ELSE [cs |-> cs, cur |-> JoinPiece(cur, <<"\n", "\n">>, paragraph)]

\* one iteration of the loop of chunk_by_paragraphs: the chunk list and the
\* current chunk after the paragraph `raw`
ParagraphStep(cs, cur, raw, max_size, min_len) ==
    LET paragraph == Strip(raw)
    IN IF paragraph = << >> THEN [cs |-> cs, cur |-> cur]
       ELSE IF Len(cur) + Len(paragraph) > max_size
       THEN IF cur # << >>
            THEN [cs |-> Append(cs, Strip(cur)), cur |-> paragraph]
            ELSE [cs |-> cs \o SentenceChunks(paragraph, max_size, min_len),
                  cur |-> cur]
       ELSE [cs |-> cs, cur |-> JoinPiece(cur, <<"\n", "\n">>, paragraph)]

\* the loop of chunk_by_paragraphs, from paragraph number i on
RECURSIVE ParagraphsLoop(_, _, _, _, _, _)
ParagraphsLoop(paras, i, cs, cur, max_size, min_len) ==
    IF i > Len(paras) THEN FlushChunk(cs, cur)
    ELSE LET st == ParagraphStep(cs, cur, paras[i], max_size, min_len)
         IN ParagraphsLoop(paras, i+1, st.cs, st.cur, max_size, min_len)

\* chunk_by_paragraphs with the threshold of the final filters as a parameter
ParagraphChunks(t, max_size, min_len) ==
    FilterShort(ParagraphsLoop(SplitParagraphs(t), 1, << >>, << >>, max_size,
                               min_len),
                min_len)

chunk_by_paragraphs(t, max_size) == ParagraphChunks(t, max_size, MinChunkLen)

\* smart_chunk_text with the threshold of the final filters as a parameter
SmartChunks(t, max_size, strat, min_len) ==
    LET stripped == Strip(t)
    IN IF Len(stripped) <= max_size THEN <<stripped>>
       ELSE IF strat = "paragraphs" THEN ParagraphChunks(stripped, max_size, min_len)
       ELSE SentenceChunks(stripped, max_size, min_len)

smart_chunk_text(t, max_size, strat) == SmartChunks(t, max_size, strat, MinChunkLen)

----------------------------------------------------------------------------
(* GeminiQuestionGenerationService *)

\* variant: the size test is strict
ShouldChunkStrict(t, max_size, enabled) == ~(~enabled \/ Len(t) < max_size)

\* the test of generate_questions that selects the chunked path
ShouldChunk(t, max_size, enabled) == ~(~enabled \/ Len(t) <= max_size)

\* variant: the last budget is clamped at zero
LastBudgetClamped(total_questions, distributed) ==
    Max(0, total_questions - distributed)

\* questions_per_chunk.append(total_questions - distributed)
LastBudget(total_questions, distributed) == total_questions - distributed

(* Python floats are IEEE 754 doubles: a significand of 53 binary digits,  *)
(* every operation rounded to nearest, ties to even.  A positive double is *)
(* modelled as [m |-> digits, most significant first, e |-> the binary     *)
(* exponent of the last digit]; zero has m = << >>.                        *)
SignificandBits == 53

RECURSIVE BitsToInt(_)
BitsToInt(bits) ==
    IF bits = << >> THEN 0
    ELSE 2 * BitsToInt(SubSeq(bits, 1, Len(bits) - 1)) + bits[Len(bits)]

\* the n low binary digits of v, most significant first
IntToBits(v, n) == [i \in 1..n |-> (v \div 2^(n - i)) % 2]

\* the binary digits of v >= 0 without leading zeros
RECURSIVE IntBits(_)
IntBits(v) == IF v = 0 THEN << >> ELSE IntBits(v \div 2) \o <<v % 2>>

\* n binary digits of r / d after the point (0 <= r < d < 2^23), taken eight
\* at a time, and what is left
RECURSIVE QuotientDigits(_, _, _)
QuotientDigits(r, d, n) ==
    IF n = 0 THEN [bits |-> << >>, rem |-> r]
    ELSE LET k == Min(n, 8)
             rest == QuotientDigits((r * 2^k) % d, d, n - k)
         IN [bits |-> IntToBits((r * 2^k) \div d, k) \o rest.bits,
             rem |-> rest.rem]

\* position after the point of the first 1 of r / d (0 < r < d), and what is
\* left after it
RECURSIVE FirstOne(_, _)
FirstOne(r, d) ==
    IF 2 * r >= d THEN [pos |-> 1, rem |-> 2 * r - d]
    ELSE LET n == FirstOne(2 * r, d) IN [pos |-> n.pos + 1, rem |-> n.rem]

\* digits + 1
IncrementBits(bits) ==
    LET zeros == {i \in 1..Len(bits) : bits[i] = 0}
    IN IF zeros = {} THEN <<1>> \o [i \in 1..Len(bits) |-> 0]
       ELSE [i \in 1..Len(bits) |->
                IF i < SetMax(zeros) THEN bits[i]
                ELSE IF i = SetMax(zeros) THEN 1 ELSE 0]

\* round to nearest, ties to even: digits m with last exponent e, followed by
\* a guard digit and a flag for anything non-zero after it
RoundToDouble(m, e, guard, sticky) ==
    LET up == guard = 1 /\ (sticky \/ m[Len(m)] = 1)
        r == IF up THEN IncrementBits(m) ELSE m
    IN IF Len(r) > Len(m)
       THEN [m |-> SubSeq(r, 1, Len(m)), e |-> e + 1]
       ELSE [m |-> r, e |-> e]

\* size / total_size as a double, for 0 < size < total_size
FloatQuotient(size, total_size) ==
    LET first == FirstOne(size, total_size)
        tail == QuotientDigits(first.rem, total_size, SignificandBits - 1)
        guard == QuotientDigits(tail.rem, total_size, 1)
    IN RoundToDouble(<<1>> \o tail.bits, 0 - (first.pos + SignificandBits - 1),
                     guard.bits[1], guard.rem # 0)

\* digits * t + carry for a natural number t < 2^22, exactly, eight digits
\* at a time
RECURSIVE TimesSmall(_, _, _)
TimesSmall(bits, t, carry) ==
    IF bits = << >> THEN IntBits(carry)
    ELSE LET k == Min(8, Len(bits))
             v == BitsToInt(SubSeq(bits, Len(bits) - k + 1, Len(bits))) * t + carry
         IN TimesSmall(SubSeq(bits, 1, Len(bits) - k), t, v \div 2^k)
            \o IntToBits(v % 2^k, k)

\* n * f as a double, for a natural number n >= 1 that is exact as a double
FloatTimesInt(n, f) ==
    LET prod == TimesSmall(f.m, n, 0)
        extra == Len(prod) - SignificandBits
    IN IF extra <= 0 THEN [m |-> prod, e |-> f.e]
       ELSE RoundToDouble(SubSeq(prod, 1, SignificandBits), f.e + extra,
                          prod[SignificandBits + 1],
                          \E i \in (SignificandBits + 2)..Len(prod) : prod[i] = 1)

\* int(f) for a double f >= 0 below 2^31
FloatFloor(f) ==
    IF f.e >= 0 THEN BitsToInt(f.m \o [i \in 1..f.e |-> 0])
    ELSE IF Len(f.m) + f.e <= 0 THEN 0
    ELSE BitsToInt(SubSeq(f.m, 1, Len(f.m) + f.e))

\* int(total_questions * (size / total_size)), in doubles as the code takes it
ScaledShare(total_questions, size, total_size) ==
    IF size = 0 THEN 0
    ELSE IF size = total_size THEN total_questions
    ELSE FloatFloor(FloatTimesInt(total_questions,
                                  FloatQuotient(size, total_size)))

\* variant: no floor of one question per chunk
ProportionalBudgetNoFloor(total_questions, size, total_size) ==
    ScaledShare(total_questions, size, total_size)

\* max(1, int(total_questions * proportion))
ProportionalBudget(total_questions, size, total_size) ==
    Max(1, ScaledShare(total_questions, size, total_size))

\* the loop of _distribute_questions_across_chunks, from chunk number i on
RECURSIVE DistributeLoop(_, _, _, _, _, _)
DistributeLoop(chunk_sizes, i, qpc, distributed, total_questions, total_size) ==
    IF i > Len(chunk_sizes) THEN qpc
    ELSE IF i = Len(chunk_sizes)
    THEN DistributeLoop(chunk_sizes, i+1,
                        Append(qpc, LastBudget(total_questions, distributed)),
                        distributed, total_questions, total_size)
    ELSE LET chunk_questions ==
                 ProportionalBudget(total_questions, chunk_sizes[i], total_size)
         IN DistributeLoop(chunk_sizes, i+1, Append(qpc, chunk_questions),
                           distributed + chunk_questions,
                           total_questions, total_size)

ChunkSizes(cs) == [i \in 1..Len(cs) |-> Len(cs[i])]

\* size / total_size raises ZeroDivisionError
DistributeRaises(cs) == Len(cs) >= 2 /\ SumSeq(ChunkSizes(cs)) = 0

_distribute_questions_across_chunks(cs, total_questions) ==
    IF cs = << >> THEN << >>
    ELSE DistributeLoop(ChunkSizes(cs), 1, << >>, 0, total_questions,
                        SumSeq(ChunkSizes(cs)))

\* variant: smallest chunk first
SizeRankAscending(cs, i) ==
    1 + Cardinality({j \in 1..Len(cs) :
                        \/ Len(cs[j]) < Len(cs[i])
                        \/ Len(cs[j]) = Len(cs[i]) /\ j < i})

\* chunk_sizes.sort(key=lambda x: x[1], reverse=True): stable, so chunks of
\* equal size keep their order
SizeRank(cs, i) ==
    1 + Cardinality({j \in 1..Len(cs) :
                        \/ Len(cs[j]) > Len(cs[i])
                        \/ Len(cs[j]) = Len(cs[i]) /\ j < i})

\* variant: among chunks of equal size the later one comes first
SortBySizeDescTiesLast(cs) ==
    [r \in 1..Len(cs) |->
        CHOOSE i \in 1..Len(cs) :
            r = 1 + Cardinality({j \in 1..Len(cs) :
                                    \/ Len(cs[j]) > Len(cs[i])
                                    \/ Len(cs[j]) = Len(cs[i]) /\ j > i})]

\* the chunk numbers in the order of the sorted chunk_sizes
SortBySizeDesc(cs) ==
    [r \in 1..Len(cs) |-> CHOOSE i \in 1..Len(cs) : SizeRank(cs, i) = r]

\* variant: only a negative budget skips the chunk
SkipsChunkNegative(chunk_questions) == chunk_questions < 0

\* "if chunk_questions <= 0: continue"
SkipsChunk(chunk_questions) == chunk_questions <= 0

\* variant: the direct result is cut to the requested count
DirectResultCut(ret, n) == SubSeq(ret, 1, Min(n, Len(ret)))

\* "return self._generate_from_single_text(...)" of generate_questions
DirectResult(ret, n) == ret

\* variant: new questions are put in front of the accumulator
ExtendFront(acc, ret) == ret \o acc

\* all_questions.extend(...)
Extend(acc, ret) == acc \o ret

\* variant: the backfill goes through every chunk
TopChunksAll(rk) == rk

\* chunk_sizes[:2]
TopChunks(rk) == SubSeq(rk, 1, Min(2, Len(rk)))

\* variant: the accumulator is returned whole
ReturnSliceAll(qs, n) == qs

\* all_questions[:num_questions]
ReturnSlice(qs, n) == SubSeq(qs, 1, Min(n, Len(qs)))

\* variant: no cap on the size of a backfill request
BackfillCountUncapped(rem) == rem

\* min(remaining, 3)
BackfillCount(rem) == Min(rem, 3)

\* the questions returned by call number n when it yields k of them
Returned(n, k) == [j \in 1..k |-> <<n, j>>]

CallRecord(phase, chunk, arg, count, ok, ret) ==
    [phase |-> phase, chunk |-> chunk, arg |-> arg, count |-> count,
     ok |-> ok, ret |-> ret]

----------------------------------------------------------------------------
(* Documents the specifications draw their input from *)

Word(i, n) == Run(Letters[i], n)

\* words 1..n of lengths ws, separated by ss, followed by tl
RECURSIVE DocFrom(_, _, _, _)
DocFrom(ws, ss, tl, i) ==
    IF i = Len(ws) THEN Word(i, ws[i]) \o tl
    ELSE Word(i, ws[i]) \o ss[i] \o DocFrom(ws, ss, tl, i+1)

Docs(seps, tails) ==
    UNION {{DocFrom(ws, ss, tl, 1) :
               ws \in [1..n -> WordLens], ss \in [1..(n-1) -> seps], tl \in tails} :
           n \in 1..MaxWords}

GenSeps == {<<"\n", "\n">>, <<".", " ">>}
GenTails == {<< >>}

----------------------------------------------------------------------------
(* generate_questions: one request, from the call to its return or error *)

\* variant: a failed direct call makes the request return an empty list
AfterDirectFailureReturns(at) == "done"

\* the outer "except Exception: ... raise HTTPException(status_code=500, ...)"
AfterDirectFailure(at) == "failed"

\* variant: a failed chunk call ends the request with an error
AfterChunkFailureAbort(loop) == "failed"

\* "except Exception: ... continue" keeps the loop it is in going
AfterChunkFailure(loop) == loop

Init ==
    /\ text \in Docs(GenSeps, GenTails)
    /\ num_questions \in 1..MaxQuestions
    /\ max_chunk_size \in MaxChunkSizes
    /\ enable_chunking \in BOOLEAN
    /\ strategy = "paragraphs"
    /\ pc = "start"
    /\ path = "none"
    /\ chunks = << >>
    /\ questions_per_chunk = << >>
    /\ all_questions = << >>
    /\ idx = 0
    /\ remaining = 0
    /\ ranked = << >>
    /\ calls = << >>
    /\ result = << >>
    /\ paragraphs = << >>
    /\ current_chunk = << >>

\* generate_questions up to its first call of the model, on the direct path
EnterSingle ==
    /\ pc = "start"
    /\ ~ShouldChunk(text, max_chunk_size, enable_chunking)
    /\ path' = "single"
    /\ pc' = "single_call"
    /\ UNCHANGED <<paragraphs, current_chunk,
                   text, num_questions, max_chunk_size, enable_chunking, strategy,
                   chunks, questions_per_chunk, all_questions, idx, remaining,
                   ranked, calls, result>>

\* generate_questions and _generate_from_chunked_text up to the first pass
EnterChunked ==
    /\ pc = "start"
    /\ ShouldChunk(text, max_chunk_size, enable_chunking)
    /\ path' = "chunked"
    /\ LET cs == smart_chunk_text(text, max_chunk_size, strategy)
       IN /\ chunks' = cs
          /\ IF DistributeRaises(cs)
             THEN /\ pc' = "failed"
                  /\ UNCHANGED <<questions_per_chunk, idx>>
             ELSE /\ questions_per_chunk' =
                         _distribute_questions_across_chunks(cs, num_questions)
                  /\ idx' = 1
                  /\ pc' = "first_pass"
    /\ all_questions' = << >>
    /\ UNCHANGED <<paragraphs, current_chunk,
                   text, num_questions, max_chunk_size, enable_chunking, strategy,
                   remaining, ranked, calls, result>>

\* the direct call returns k questions, which are returned as they are
SingleCallReturns(k) ==
    /\ pc = "single_call"
    /\ LET ret == Returned(Len(calls) + 1, k)
       IN /\ calls' = Append(calls, CallRecord("single", 0, text, num_questions,
                                               TRUE, ret))
          /\ result' = DirectResult(ret, num_questions)
    /\ pc' = "done"
    /\ UNCHANGED <<paragraphs, current_chunk,
                   text, num_questions, max_chunk_size, enable_chunking, strategy,
                   path, chunks, questions_per_chunk, all_questions, idx,
                   remaining, ranked>>

\* the direct call raises: generate_questions raises HTTPException(500)
SingleCallFails ==
    /\ pc = "single_call"
    /\ calls' = Append(calls, CallRecord("single", 0, text, num_questions,
                                         FALSE, << >>))
    /\ pc' = AfterDirectFailure("single_call")
    /\ UNCHANGED <<paragraphs, current_chunk,
                   text, num_questions, max_chunk_size, enable_chunking, strategy,
                   path, chunks, questions_per_chunk, all_questions, idx,
                   remaining, ranked, result>>

\* "if chunk_questions <= 0: continue"
FirstPassSkip ==
    /\ pc = "first_pass"
    /\ idx <= Len(chunks)
    /\ SkipsChunk(questions_per_chunk[idx])
    /\ idx' = idx + 1
    /\ UNCHANGED <<paragraphs, current_chunk,
                   text, num_questions, max_chunk_size, enable_chunking, strategy,
                   pc, path, chunks, questions_per_chunk, all_questions,
                   remaining, ranked, calls, result>>

\* the call for chunk idx returns k questions
FirstPassReturns(k) ==
    /\ pc = "first_pass"
    /\ idx <= Len(chunks)
    /\ ~SkipsChunk(questions_per_chunk[idx])
    /\ LET ret == Returned(Len(calls) + 1, k)
       IN /\ calls' = Append(calls, CallRecord("first", idx, chunks[idx],
                                               questions_per_chunk[idx], TRUE, ret))
          /\ all_questions' = Extend(all_questions, ret)
    /\ idx' = idx + 1
    /\ UNCHANGED <<paragraphs, current_chunk,
                   text, num_questions, max_chunk_size, enable_chunking, strategy,
                   pc, path, chunks, questions_per_chunk, remaining, ranked,
                   result>>

\* the call for chunk idx raises
FirstPassFails ==
    /\ pc = "first_pass"
    /\ idx <= Len(chunks)
    /\ ~SkipsChunk(questions_per_chunk[idx])
    /\ calls' = Append(calls, CallRecord("first", idx, chunks[idx],
                                         questions_per_chunk[idx], FALSE, << >>))
    /\ pc' = AfterChunkFailure("first_pass")
    /\ idx' = idx + 1
    /\ UNCHANGED <<paragraphs, current_chunk,
                   text, num_questions, max_chunk_size, enable_chunking, strategy,
                   path, chunks, questions_per_chunk, all_questions, remaining,
                   ranked, result>>

\* end of the first pass: return, or set up the backfill
FirstPassDone ==
    /\ pc = "first_pass"
    /\ idx > Len(chunks)
    /\ IF Len(all_questions) < num_questions
       THEN /\ remaining' = num_questions - Len(all_questions)
            /\ ranked' = SortBySizeDesc(chunks)
            /\ idx' = 1
            /\ pc' = "backfill"
            /\ UNCHANGED result
       ELSE /\ result' = ReturnSlice(all_questions, num_questions)
            /\ pc' = "done"
            /\ UNCHANGED <<remaining, ranked, idx>>
    /\ UNCHANGED <<paragraphs, current_chunk,
                   text, num_questions, max_chunk_size, enable_chunking, strategy,
                   path, chunks, questions_per_chunk, all_questions, calls>>

\* "if len(all_questions) >= num_questions: break", then the return
BackfillBreak ==
    /\ pc = "backfill"
    /\ idx <= Len(TopChunks(ranked))
    /\ Len(all_questions) >= num_questions
    /\ result' = ReturnSlice(all_questions, num_questions)
    /\ pc' = "done"
    /\ UNCHANGED <<paragraphs, current_chunk,
                   text, num_questions, max_chunk_size, enable_chunking, strategy,
                   path, chunks, questions_per_chunk, all_questions, idx,
                   remaining, ranked, calls>>

\* the backfill call for the chunk of rank idx returns k questions
BackfillReturns(k) ==
    /\ pc = "backfill"
    /\ idx <= Len(TopChunks(ranked))
    /\ Len(all_questions) < num_questions
    /\ LET ret == Returned(Len(calls) + 1, k)
       IN /\ calls' = Append(calls, CallRecord("backfill", ranked[idx],
                                               chunks[ranked[idx]],
                                               BackfillCount(remaining), TRUE, ret))
          /\ all_questions' = Extend(all_questions, ret)
    /\ remaining' = num_questions - Len(all_questions')
    /\ idx' = idx + 1
    /\ UNCHANGED <<paragraphs, current_chunk,
                   text, num_questions, max_chunk_size, enable_chunking, strategy,
                   pc, path, chunks, questions_per_chunk, ranked, result>>

\* the backfill call for the chunk of rank idx raises
BackfillFails ==
    /\ pc = "backfill"
    /\ idx <= Len(TopChunks(ranked))
    /\ Len(all_questions) < num_questions
    /\ calls' = Append(calls, CallRecord("backfill", ranked[idx],
                                         chunks[ranked[idx]],
                                         BackfillCount(remaining), FALSE, << >>))
    /\ pc' = AfterChunkFailure("backfill")
    /\ idx' = idx + 1
    /\ UNCHANGED <<paragraphs, current_chunk,
                   text, num_questions, max_chunk_size, enable_chunking, strategy,
                   path, chunks, questions_per_chunk, all_questions, remaining,
                   ranked, result>>

\* the backfill loop is exhausted: return
BackfillDone ==
    /\ pc = "backfill"
    /\ idx > Len(TopChunks(ranked))
    /\ result' = ReturnSlice(all_questions, num_questions)
    /\ pc' = "done"
    /\ UNCHANGED <<paragraphs, current_chunk,
                   text, num_questions, max_chunk_size, enable_chunking, strategy,
                   path, chunks, questions_per_chunk, all_questions, idx,
                   remaining, ranked, calls>>

\* how many questions a call asked for `count` may return
Yields(count) == 1..(count + MaxExtra)

Next ==
    \/ EnterSingle
    \/ EnterChunked
    \/ \E k \in Yields(num_questions) : SingleCallReturns(k)
    \/ SingleCallFails
    \/ FirstPassSkip
    \/ \E k \in Yields(MaxQuestions) :
           /\ pc = "first_pass" /\ idx <= Len(chunks)
           /\ k \in Yields(questions_per_chunk[idx])
           /\ FirstPassReturns(k)
    \/ FirstPassFails
    \/ FirstPassDone
    \/ BackfillBreak
    \/ \E k \in Yields(BackfillCount(remaining)) : BackfillReturns(k)
    \/ BackfillFails
    \/ BackfillDone

Spec == Init /\ [][Next]_vars

LiveSeps == {<<"\n", "\n">>}
LiveMaxChunkSizes == {60, 100}

\* requests for documents made of paragraphs only
InitLive ==
    /\ text \in Docs(LiveSeps, GenTails)
    /\ num_questions \in 1..MaxQuestions
    /\ max_chunk_size \in LiveMaxChunkSizes
    /\ enable_chunking \in BOOLEAN
    /\ strategy = "paragraphs"
    /\ pc = "start"
    /\ path = "none"
    /\ chunks = << >>
    /\ questions_per_chunk = << >>
    /\ all_questions = << >>
    /\ idx = 0
    /\ remaining = 0
    /\ ranked = << >>
    /\ calls = << >>
    /\ result = << >>
    /\ paragraphs = << >>
    /\ current_chunk = << >>

\* the steps of the two loops of _generate_from_chunked_text
ChunkedLoop ==
    \/ FirstPassSkip
    \/ \E k \in Yields(MaxQuestions) :
           /\ pc = "first_pass" /\ idx <= Len(chunks)
           /\ k \in Yields(questions_per_chunk[idx])
           /\ FirstPassReturns(k)
    \/ FirstPassFails
    \/ FirstPassDone
    \/ BackfillBreak
    \/ \E k \in Yields(BackfillCount(remaining)) : BackfillReturns(k)
    \/ BackfillFails
    \/ BackfillDone

\* such a request when every call made by the loops eventually returns or
\* raises and the interpreter keeps running the code between the calls
SpecLive == InitLive /\ [][Next]_vars /\ WF_vars(ChunkedLoop)

----------------------------------------------------------------------------
(* smart_chunk_text on its own, for both strategies *)

InitSegment ==
    /\ text \in Docs(Seps, Tails)
    /\ max_chunk_size \in MaxChunkSizes
    /\ strategy \in {"paragraphs", "sentences"}
    /\ num_questions = 1
    /\ enable_chunking = TRUE
    /\ pc = "start"
    /\ path = "none"
    /\ chunks = << >>
    /\ questions_per_chunk = << >>
    /\ all_questions = << >>
    /\ idx = 0
    /\ remaining = 0
    /\ ranked = << >>
    /\ calls = << >>
    /\ result = << >>
    /\ paragraphs = << >>
    /\ current_chunk = << >>

SmartChunk ==
    /\ pc = "start"
    /\ chunks' = smart_chunk_text(text, max_chunk_size, strategy)
    /\ pc' = "segmented"
    /\ UNCHANGED <<paragraphs, current_chunk,
                   text, num_questions, max_chunk_size, enable_chunking, strategy,
                   path, questions_per_chunk, all_questions, idx, remaining,
                   ranked, calls, result>>

NextSegment == SmartChunk

SpecSegment == InitSegment /\ [][NextSegment]_vars

----------------------------------------------------------------------------
(* _distribute_questions_across_chunks on its own, for arbitrary chunk lists *)

AllocChunkLists ==
    UNION {{[i \in 1..n |-> Run("a", ls[i])] : ls \in [1..n -> AllocLens]} :
           n \in 0..MaxAllocChunks}

InitAllocate ==
    /\ chunks \in AllocChunkLists
    /\ num_questions \in AllocTotals
    /\ text = << >>
    /\ max_chunk_size = 0
    /\ enable_chunking = TRUE
    /\ strategy = "paragraphs"
    /\ pc = "start"
    /\ path = "none"
    /\ questions_per_chunk = << >>
    /\ all_questions = << >>
    /\ idx = 0
    /\ remaining = 0
    /\ ranked = << >>
    /\ calls = << >>
    /\ result = << >>
    /\ paragraphs = << >>
    /\ current_chunk = << >>

Distribute ==
    /\ pc = "start"
    /\ questions_per_chunk' = _distribute_questions_across_chunks(chunks, num_questions)
    /\ pc' = "allocated"
    /\ UNCHANGED <<paragraphs, current_chunk,
                   text, num_questions, max_chunk_size, enable_chunking, strategy,
                   path, chunks, all_questions, idx, remaining, ranked, calls,
                   result>>

NextAllocate == Distribute

SpecAllocate == InitAllocate /\ [][NextAllocate]_vars

----------------------------------------------------------------------------
(* chunk_by_paragraphs on its own, one loop iteration at a time *)

ParaSeps == {<<"\n", "\n">>, <<".", " ">>, <<" ">>}
ParaTails == {<< >>, <<"\n", "\n">>}

InitParagraphs ==
    /\ text \in Docs(ParaSeps, ParaTails)
    /\ max_chunk_size \in MaxChunkSizes
    /\ strategy = "paragraphs"
    /\ num_questions = 1
    /\ enable_chunking = TRUE
    /\ pc = "start"
    /\ path = "none"
    /\ chunks = << >>
    /\ questions_per_chunk = << >>
    /\ all_questions = << >>
    /\ idx = 0
    /\ remaining = 0
    /\ ranked = << >>
    /\ calls = << >>
    /\ result = << >>
    /\ paragraphs = << >>
    /\ current_chunk = << >>

\* lines 48-51: the split and the two empty accumulators
SplitIntoParagraphs ==
    /\ pc = "start"
    /\ paragraphs' = SplitParagraphs(text)
    /\ chunks' = << >>
    /\ current_chunk' = << >>
    /\ idx' = 1
    /\ pc' = "paragraphs"
    /\ UNCHANGED <<text, num_questions, max_chunk_size, enable_chunking,
                   strategy, path, questions_per_chunk, all_questions,
                   remaining, ranked, calls, result>>

\* lines 53-67: the iteration for paragraph number idx
ParagraphIteration ==
    /\ pc = "paragraphs"
    /\ idx <= Len(paragraphs)
    /\ LET st == ParagraphStep(chunks, current_chunk, paragraphs[idx],
                               max_chunk_size, MinChunkLen)
       IN chunks' = st.cs /\ current_chunk' = st.cur
    /\ idx' = idx + 1
    /\ UNCHANGED <<text, num_questions, max_chunk_size, enable_chunking,
                   strategy, pc, path, questions_per_chunk, all_questions,
                   remaining, ranked, calls, result, paragraphs>>

\* lines 69-73: the trailing chunk and the final filter
ParagraphsReturn ==
    /\ pc = "paragraphs"
    /\ idx > Len(paragraphs)
    /\ chunks' = FilterShort(FlushChunk(chunks, current_chunk), MinChunkLen)
    /\ pc' = "paragraphs_done"
    /\ UNCHANGED <<text, num_questions, max_chunk_size, enable_chunking,
                   strategy, path, questions_per_chunk, all_questions, idx,
                   remaining, ranked, calls, result, paragraphs, current_chunk>>

NextParagraphs == SplitIntoParagraphs \/ ParagraphIteration \/ ParagraphsReturn

SpecParagraphs == InitParagraphs /\ [][NextParagraphs]_vars

----------------------------------------------------------------------------
(* _split_by_words on its own *)

WordSeps == {<<" ">>, <<" ", " ">>}

InitWords ==
    /\ text \in Docs(WordSeps, Tails)
    /\ max_chunk_size \in MaxChunkSizes
    /\ strategy = "sentences"
    /\ num_questions = 1
    /\ enable_chunking = TRUE
    /\ pc = "start"
    /\ path = "none"
    /\ chunks = << >>
    /\ questions_per_chunk = << >>
    /\ all_questions = << >>
    /\ idx = 0
    /\ remaining = 0
    /\ ranked = << >>
    /\ calls = << >>
    /\ result = << >>
    /\ paragraphs = << >>
    /\ current_chunk = << >>

SplitByWords ==
    /\ pc = "start"
    /\ chunks' = _split_by_words(text, max_chunk_size)
    /\ pc' = "words_split"
    /\ UNCHANGED <<text, num_questions, max_chunk_size, enable_chunking,
                   strategy, path, questions_per_chunk, all_questions, idx,
                   remaining, ranked, calls, result, paragraphs, current_chunk>>

NextWords == SplitByWords

SpecWords == InitWords /\ [][NextWords]_vars

----------------------------------------------------------------------------
(* chunk_by_paragraphs on one paragraph of 6000 characters at the configured *)
(* limit                                                                    *)

ScenarioLens == {6000}
ScenarioWordLens == {39, 100, 2000, 2999, 3990, 5960}
ScenarioSeps == {<<" ">>, <<".", " ">>, <<",", " ">>}

\* what is left of len characters after the words ws and the separators ss
ScenarioRest(len, ws, ss) ==
    len - SumSeq(ws) - SumSeq([i \in 1..Len(ss) |-> Len(ss[i])])

\* the paragraphs of exactly len characters made of n words, the last of
\* which takes whatever the others leave
ScenarioDocsOf(len, n) ==
    {DocFrom(Append(p[1], ScenarioRest(len, p[1], p[2])), p[2], << >>, 1) :
        p \in {q \in [1..(n-1) -> ScenarioWordLens] \X [1..(n-1) -> ScenarioSeps] :
                  ScenarioRest(len, q[1], q[2]) >= 1}}

ScenarioDocs ==
    UNION {ScenarioDocsOf(len, n) : len \in ScenarioLens, n \in 1..MaxScenarioWords}

InitScenario ==
    /\ text \in ScenarioDocs
    /\ max_chunk_size = GEMINI_MAX_INPUT_CHARS
    /\ strategy = "paragraphs"
    /\ num_questions = 1
    /\ enable_chunking = TRUE
    /\ pc = "start"
    /\ path = "none"
    /\ chunks = << >>
    /\ questions_per_chunk = << >>
    /\ all_questions = << >>
    /\ idx = 0
    /\ remaining = 0
    /\ ranked = << >>
    /\ calls = << >>
    /\ result = << >>
    /\ paragraphs = << >>
    /\ current_chunk = << >>

SpecScenario == InitScenario /\ [][NextParagraphs]_vars

----------------------------------------------------------------------------
(* Two requests served by the one ai_service object, their steps interleaved *)
(* in any order.  Every parameter and local variable of generate_questions  *)
(* and _generate_from_chunked_text exists once per request, so here each of *)
(* them is a function of the request; the settings and the history of the   *)
(* calls of the model are shared.                                           *)

Requests == {1, 2}
PairWordLens == {<<70>>, <<70, 70>>}
PairTexts ==
    {DocFrom(ws, [i \in 1..(Len(ws) - 1) |-> <<"\n", "\n">>], << >>, 1) :
        ws \in PairWordLens}
PairQuestions == {1, 2}
PairMaxChunkSizes == {100}

\* variant: the accumulator is an attribute of the shared service object
AccumulatorShared(r) == 1

\* "all_questions = []" makes the accumulator a local of the request
AccumulatorOf(r) == r

PairCallRecord(r, phase, ok, ret) ==
    [by |-> r, phase |-> phase, ok |-> ok, ret |-> ret]

InitPair ==
    /\ text \in [Requests -> PairTexts]
    /\ num_questions \in [Requests -> PairQuestions]
    /\ max_chunk_size \in PairMaxChunkSizes
    /\ enable_chunking = TRUE
    /\ strategy = "paragraphs"
    /\ pc = [r \in Requests |-> "start"]
    /\ path = [r \in Requests |-> "none"]
    /\ chunks = [r \in Requests |-> << >>]
    /\ questions_per_chunk = [r \in Requests |-> << >>]
    /\ all_questions = [r \in Requests |-> << >>]
    /\ idx = [r \in Requests |-> 0]
    /\ remaining = [r \in Requests |-> 0]
    /\ ranked = [r \in Requests |-> << >>]
    /\ calls = << >>
    /\ result = [r \in Requests |-> << >>]
    /\ paragraphs = << >>
    /\ current_chunk = << >>

PairEnterSingle(r) ==
    /\ pc[r] = "start"
    /\ ~ShouldChunk(text[r], max_chunk_size, enable_chunking)
    /\ path' = [path EXCEPT ![r] = "single"]
    /\ pc' = [pc EXCEPT ![r] = "single_call"]
    /\ UNCHANGED <<text, num_questions, max_chunk_size, enable_chunking,
                   strategy, chunks, questions_per_chunk, all_questions, idx,
                   remaining, ranked, calls, result, paragraphs, current_chunk>>

PairEnterChunked(r) ==
    /\ pc[r] = "start"
    /\ ShouldChunk(text[r], max_chunk_size, enable_chunking)
    /\ path' = [path EXCEPT ![r] = "chunked"]
    /\ LET cs == smart_chunk_text(text[r], max_chunk_size, strategy)
       IN /\ chunks' = [chunks EXCEPT ![r] = cs]
          /\ IF DistributeRaises(cs)
             THEN /\ pc' = [pc EXCEPT ![r] = "failed"]
                  /\ UNCHANGED <<questions_per_chunk, idx>>
             ELSE /\ questions_per_chunk' =
                         [questions_per_chunk EXCEPT ![r] =
                             _distribute_questions_across_chunks(
                                 cs, num_questions[r])]
                  /\ idx' = [idx EXCEPT ![r] = 1]
                  /\ pc' = [pc EXCEPT ![r] = "first_pass"]
    /\ all_questions' = [all_questions EXCEPT ![AccumulatorOf(r)] = << >>]
    /\ UNCHANGED <<text, num_questions, max_chunk_size, enable_chunking,
                   strategy, remaining, ranked, calls, result, paragraphs,
                   current_chunk>>

PairSingleCallReturns(r, k) ==
    /\ pc[r] = "single_call"
    /\ LET ret == Returned(Len(calls) + 1, k)
       IN /\ calls' = Append(calls, PairCallRecord(r, "single", TRUE, ret))
          /\ result' = [result EXCEPT ![r] = DirectResult(ret, num_questions[r])]
    /\ pc' = [pc EXCEPT ![r] = "done"]
    /\ UNCHANGED <<text, num_questions, max_chunk_size, enable_chunking,
                   strategy, path, chunks, questions_per_chunk, all_questions,
                   idx, remaining, ranked, paragraphs, current_chunk>>

PairSingleCallFails(r) ==
    /\ pc[r] = "single_call"
    /\ calls' = Append(calls, PairCallRecord(r, "single", FALSE, << >>))
    /\ pc' = [pc EXCEPT ![r] = AfterDirectFailure("single_call")]
    /\ UNCHANGED <<text, num_questions, max_chunk_size, enable_chunking,
                   strategy, path, chunks, questions_per_chunk, all_questions,
                   idx, remaining, ranked, result, paragraphs, current_chunk>>

PairFirstPassSkip(r) ==
    /\ pc[r] = "first_pass"
    /\ idx[r] <= Len(chunks[r])
    /\ SkipsChunk(questions_per_chunk[r][idx[r]])
    /\ idx' = [idx EXCEPT ![r] = idx[r] + 1]
    /\ UNCHANGED <<text, num_questions, max_chunk_size, enable_chunking,
                   strategy, pc, path, chunks, questions_per_chunk,
                   all_questions, remaining, ranked, calls, result, paragraphs,
                   current_chunk>>

PairFirstPassReturns(r, k) ==
    /\ pc[r] = "first_pass"
    /\ idx[r] <= Len(chunks[r])
    /\ ~SkipsChunk(questions_per_chunk[r][idx[r]])
    /\ LET ret == Returned(Len(calls) + 1, k)
           acc == AccumulatorOf(r)
       IN /\ calls' = Append(calls, PairCallRecord(r, "first", TRUE, ret))
          /\ all_questions' =
                 [all_questions EXCEPT ![acc] = Extend(all_questions[acc], ret)]
    /\ idx' = [idx EXCEPT ![r] = idx[r] + 1]
    /\ UNCHANGED <<text, num_questions, max_chunk_size, enable_chunking,
                   strategy, pc, path, chunks, questions_per_chunk, remaining,
                   ranked, result, paragraphs, current_chunk>>

PairFirstPassFails(r) ==
    /\ pc[r] = "first_pass"
    /\ idx[r] <= Len(chunks[r])
    /\ ~SkipsChunk(questions_per_chunk[r][idx[r]])
    /\ calls' = Append(calls, PairCallRecord(r, "first", FALSE, << >>))
    /\ pc' = [pc EXCEPT ![r] = AfterChunkFailure("first_pass")]
    /\ idx' = [idx EXCEPT ![r] = idx[r] + 1]
    /\ UNCHANGED <<text, num_questions, max_chunk_size, enable_chunking,
                   strategy, path, chunks, questions_per_chunk, all_questions,
                   remaining, ranked, result, paragraphs, current_chunk>>

PairFirstPassDone(r) ==
    /\ pc[r] = "first_pass"
    /\ idx[r] > Len(chunks[r])
    /\ LET acc == all_questions[AccumulatorOf(r)]
       IN IF Len(acc) < num_questions[r]
          THEN /\ remaining' =
                      [remaining EXCEPT ![r] = num_questions[r] - Len(acc)]
               /\ ranked' = [ranked EXCEPT ![r] = SortBySizeDesc(chunks[r])]
               /\ idx' = [idx EXCEPT ![r] = 1]
               /\ pc' = [pc EXCEPT ![r] = "backfill"]
               /\ UNCHANGED result
          ELSE /\ result' =
                      [result EXCEPT ![r] = ReturnSlice(acc, num_questions[r])]
               /\ pc' = [pc EXCEPT ![r] = "done"]
               /\ UNCHANGED <<remaining, ranked, idx>>
    /\ UNCHANGED <<text, num_questions, max_chunk_size, enable_chunking,
                   strategy, path, chunks, questions_per_chunk, all_questions,
                   calls, paragraphs, current_chunk>>

PairBackfillBreak(r) ==
    /\ pc[r] = "backfill"
    /\ idx[r] <= Len(TopChunks(ranked[r]))
    /\ Len(all_questions[AccumulatorOf(r)]) >= num_questions[r]
    /\ result' = [result EXCEPT ![r] =
                     ReturnSlice(all_questions[AccumulatorOf(r)],
                                 num_questions[r])]
    /\ pc' = [pc EXCEPT ![r] = "done"]
    /\ UNCHANGED <<text, num_questions, max_chunk_size, enable_chunking,
                   strategy, path, chunks, questions_per_chunk, all_questions,
                   idx, remaining, ranked, calls, paragraphs, current_chunk>>

PairBackfillReturns(r, k) ==
    /\ pc[r] = "backfill"
    /\ idx[r] <= Len(TopChunks(ranked[r]))
    /\ Len(all_questions[AccumulatorOf(r)]) < num_questions[r]
    /\ LET ret == Returned(Len(calls) + 1, k)
           acc == AccumulatorOf(r)
       IN /\ calls' = Append(calls, PairCallRecord(r, "backfill", TRUE, ret))
          /\ all_questions' =
                 [all_questions EXCEPT ![acc] = Extend(all_questions[acc], ret)]
          /\ remaining' = [remaining EXCEPT ![r] =
                              num_questions[r] - Len(all_questions'[acc])]
    /\ idx' = [idx EXCEPT ![r] = idx[r] + 1]
    /\ UNCHANGED <<text, num_questions, max_chunk_size, enable_chunking,
                   strategy, pc, path, chunks, questions_per_chunk, ranked,
                   result, paragraphs, current_chunk>>

PairBackfillFails(r) ==
    /\ pc[r] = "backfill"
    /\ idx[r] <= Len(TopChunks(ranked[r]))
    /\ Len(all_questions[AccumulatorOf(r)]) < num_questions[r]
    /\ calls' = Append(calls, PairCallRecord(r, "backfill", FALSE, << >>))
    /\ pc' = [pc EXCEPT ![r] = AfterChunkFailure("backfill")]
    /\ idx' = [idx EXCEPT ![r] = idx[r] + 1]
    /\ UNCHANGED <<text, num_questions, max_chunk_size, enable_chunking,
                   strategy, path, chunks, questions_per_chunk, all_questions,
                   remaining, ranked, result, paragraphs, current_chunk>>

PairBackfillDone(r) ==
    /\ pc[r] = "backfill"
    /\ idx[r] > Len(TopChunks(ranked[r]))
    /\ result' = [result EXCEPT ![r] =
                     ReturnSlice(all_questions[AccumulatorOf(r)],
                                 num_questions[r])]
    /\ pc' = [pc EXCEPT ![r] = "done"]
    /\ UNCHANGED <<text, num_questions, max_chunk_size, enable_chunking,
                   strategy, path, chunks, questions_per_chunk, all_questions,
                   idx, remaining, ranked, calls, paragraphs, current_chunk>>

NextPair ==
    \E r \in Requests :
        \/ PairEnterSingle(r)
        \/ PairEnterChunked(r)
        \/ \E k \in Yields(num_questions[r]) : PairSingleCallReturns(r, k)
        \/ PairSingleCallFails(r)
        \/ PairFirstPassSkip(r)
        \/ \E k \in Yields(MaxQuestions) :
               /\ pc[r] = "first_pass" /\ idx[r] <= Len(chunks[r])
               /\ k \in Yields(questions_per_chunk[r][idx[r]])
               /\ PairFirstPassReturns(r, k)
        \/ PairFirstPassFails(r)
        \/ PairFirstPassDone(r)
        \/ PairBackfillBreak(r)
        \/ \E k \in Yields(BackfillCount(remaining[r])) :
               PairBackfillReturns(r, k)
        \/ PairBackfillFails(r)
        \/ PairBackfillDone(r)

SpecPair == InitPair /\ [][NextPair]_vars

----------------------------------------------------------------------------
(* generate_questions for requests large enough for the first pass to leave *)
(* a shortfall the backfill cannot make up                                  *)

ShortfallQuestions == {1, 7, 8}

InitShortfall ==
    /\ text \in Docs(LiveSeps, GenTails)
    /\ num_questions \in ShortfallQuestions
    /\ max_chunk_size \in LiveMaxChunkSizes
    /\ enable_chunking \in BOOLEAN
    /\ strategy = "paragraphs"
    /\ pc = "start"
    /\ path = "none"
    /\ chunks = << >>
    /\ questions_per_chunk = << >>
    /\ all_questions = << >>
    /\ idx = 0
    /\ remaining = 0
    /\ ranked = << >>
    /\ calls = << >>
    /\ result = << >>
    /\ paragraphs = << >>
    /\ current_chunk = << >>

SpecShortfall == InitShortfall /\ [][Next]_vars

----------------------------------------------------------------------------
(* _distribute_questions_across_chunks on the chunk lists of smart_chunk_text *)

\* the allocation for the chunk list just produced
DistributeChunks ==
    /\ pc = "segmented"
    /\ IF DistributeRaises(chunks)
       THEN /\ pc' = "failed"
            /\ UNCHANGED questions_per_chunk
       ELSE /\ questions_per_chunk' =
                   _distribute_questions_across_chunks(chunks, num_questions)
            /\ pc' = "allocated"
    /\ UNCHANGED <<text, num_questions, max_chunk_size, enable_chunking,
                   strategy, path, chunks, all_questions, idx, remaining,
                   ranked, calls, result, paragraphs, current_chunk>>

NextSegmentAllocate == SmartChunk \/ DistributeChunks

SpecSegmentAllocate == InitSegment /\ [][NextSegmentAllocate]_vars

----------------------------------------------------------------------------
(* Properties *)

Range(f) == {f[i] : i \in DOMAIN f}
NonSpace(s) == SelectSeq(s, LAMBDA c : ~IsSpace(c))

\* what the calls made so far returned, in call order
ReturnedSoFar == Concat([i \in 1..Len(calls) |-> calls[i].ret])
CallsOf(phase) == {i \in 1..Len(calls) : calls[i].phase = phase}
GeneratorExact ==
    \A i \in 1..Len(calls) : calls[i].ok /\ Len(calls[i].ret) = calls[i].count

\* C1: generate_questions returns at most num_questions questions, on the
\* direct path as well as on the chunked path, whatever the calls return.
C1_AtMostRequested == pc = "done" => Len(result) <= num_questions

\* C2: when no call fails and every call returns exactly the count it was
\* asked for, generate_questions returns exactly num_questions questions.
C2_ExactWhenGeneratorExact ==
    (pc = "done" /\ GeneratorExact) => Len(result) = num_questions

\* C3: on the chunked path no failure of a call ends the request with an
\* error; a failed call adds nothing to the accumulator, every chunk with a
\* positive budget still gets its first-pass call, a short first pass still
\* gets its backfill calls, and every returned question comes from a call
\* that succeeded.
C3_FailureIsolation ==
    path = "chunked" =>
        /\ pc # "failed"
        /\ all_questions =
               Concat([i \in 1..Len(calls) |->
                          IF calls[i].ok THEN calls[i].ret ELSE << >>])
        /\ pc \in {"backfill", "done"} =>
               \A c \in 1..Len(chunks) :
                   questions_per_chunk[c] > 0 =>
                       \E i \in CallsOf("first") : calls[i].chunk = c
        /\ (pc = "done" /\ Len(all_questions) < num_questions) =>
               Cardinality(CallsOf("backfill")) = Min(2, Len(chunks))
        /\ pc = "done" =>
               \A q \in Range(result) :
                   \E i \in 1..Len(calls) :
                       calls[i].ok /\ q \in Range(calls[i].ret)

\* C3 witness: a request on the chunked path that returned questions although
\* a first-pass call and a backfill call failed, each followed by a call that
\* succeeded.
C3_Witness ==
    /\ path = "chunked" /\ pc = "done" /\ result # << >>
    /\ \E i, j \in CallsOf("first") : i < j /\ ~calls[i].ok /\ calls[j].ok
    /\ \E i, j \in CallsOf("backfill") : i < j /\ ~calls[i].ok /\ calls[j].ok

\* C4: the budgets returned for a list of at least one chunk sum to the
\* requested total.
C4_BudgetSum ==
    (pc = "allocated" /\ Len(chunks) >= 1) =>
        /\ Len(questions_per_chunk) = Len(chunks)
        /\ SumSeq(questions_per_chunk) = num_questions

\* C4 witness: an allocation over three chunks with a proportional budget
\* above one and a last budget below the requested total.
C4_Witness ==
    /\ pc = "allocated" /\ Len(chunks) = 3
    /\ questions_per_chunk[1] > 1
    /\ questions_per_chunk[3] < num_questions
    /\ SumSeq(questions_per_chunk) = num_questions

\* C5: every budget returned by the allocation is non-negative.
C5_BudgetsNonNegative ==
    pc = "allocated" =>
        \A i \in 1..Len(questions_per_chunk) : questions_per_chunk[i] >= 0

\* C6: a request takes the direct path exactly when chunking is disabled or
\* the text has at most max_chunk_size characters, and then makes one call
\* with the whole text and no segmentation; every other request takes the
\* chunked path, whose chunks are those of smart_chunk_text and whose calls
\* are made on those chunks.
C6_ChunkingGate ==
    /\ path = "single" <=>
           (pc # "start" /\ (~enable_chunking \/ Len(text) <= max_chunk_size))
    /\ path = "chunked" <=>
           (pc # "start" /\ enable_chunking /\ Len(text) > max_chunk_size)
    /\ path = "single" =>
           /\ chunks = << >> /\ questions_per_chunk = << >>
           /\ Len(calls) <= 1
           /\ pc \in {"done", "failed"} =>
                  /\ Len(calls) = 1
                  /\ calls[1].arg = text
                  /\ calls[1].count = num_questions
    /\ (path = "chunked" /\ pc = "first_pass" /\ idx = 1) =>
           chunks = smart_chunk_text(text, max_chunk_size, "paragraphs")
    /\ path = "chunked" =>
           /\ \A i \in 1..Len(calls) :
                  calls[i].chunk \in 1..Len(chunks)
                  /\ calls[i].arg = chunks[calls[i].chunk]

\* C6 witness: with chunking enabled, a text of exactly max_chunk_size
\* characters was answered by one direct call.
C6_Witness ==
    /\ pc = "done" /\ path = "single" /\ enable_chunking
    /\ Len(text) = max_chunk_size
    /\ Len(calls) = 1

\* C7: every chunk returned by smart_chunk_text, for both strategies, has at
\* most max_chunk_size characters.
C7_ChunkWithinLimit ==
    pc = "segmented" =>
        \A i \in 1..Len(chunks) : Len(chunks[i]) <= max_chunk_size

\* the chunks emitted before any length filter is applied
EmittedChunks == SmartChunks(text, max_chunk_size, strategy, -1)

\* C8: when the chunk list is not empty, the chunks are the emitted chunks,
\* possibly without those of at most 50 characters, and the
\* emitted chunks, concatenated without whitespace, are the non-whitespace
\* characters of the input: none lost, none duplicated.
C8_Reconstructs ==
    (pc = "segmented" /\ chunks # << >>) =>
        /\ chunks \in {EmittedChunks, FilterShort(EmittedChunks, MinChunkLen)}
        /\ NonSpace(Concat(EmittedChunks)) = NonSpace(text)

\* C9: the chunked path returns the first min(num_questions, n) of the n
\* questions accumulated, which are the results of the first-pass calls in
\* chunk order followed by those of the backfill calls; a short result is
\* returned like any other.
C9_ReturnsPrefix ==
    path = "chunked" =>
        /\ \A i, j \in 1..Len(calls) :
               i < j =>
                   /\ calls[i].phase = "backfill" => calls[j].phase = "backfill"
                   /\ (calls[i].phase = "first" /\ calls[j].phase = "first") =>
                          calls[i].chunk < calls[j].chunk
        /\ pc = "done" =>
               /\ Len(result) = Min(num_questions, Len(ReturnedSoFar))
               /\ \A i \in 1..Len(result) : result[i] = ReturnedSoFar[i]
        /\ pc # "failed"

\* C9 witness: a result cut to num_questions from a longer accumulator that
\* holds first-pass and backfill questions.
C9_Witness ==
    /\ path = "chunked" /\ pc = "done"
    /\ CallsOf("backfill") # {}
    /\ Len(ReturnedSoFar) > num_questions
    /\ Len(result) = num_questions

\* C10: a request on the chunked path whose segmentation yields no chunk
\* does not return a list of questions.
C10_NoChunksIsFailure ==
    ~(path = "chunked" /\ chunks = << >> /\ pc = "done")

\* C11: whenever the requested total is at least the number of chunks, every
\* budget but the last is at least 1.
C11_NonLastAtLeastOne ==
    (pc = "allocated" /\ num_questions >= Len(chunks)) =>
        \A i \in 1..(Len(questions_per_chunk) - 1) : questions_per_chunk[i] >= 1

\* C11 witness: an allocation with at least as many questions as chunks in
\* which a chunk's proportional share is below one question.
C11_Witness ==
    /\ pc = "allocated" /\ Len(chunks) >= 2 /\ num_questions >= Len(chunks)
    /\ num_questions * Len(chunks[1]) < SumSeq(ChunkSizes(chunks))
    /\ questions_per_chunk[1] = 1

\* the letters of a text, and the number of the word a letter belongs to
LettersOf(s) == SelectSeq(s, LAMBDA c : c \in Range(Letters))
WordOf(c) == CHOOSE i \in 1..Len(Letters) : Letters[i] = c
CountOf(c, s) == Cardinality({i \in 1..Len(s) : s[i] = c})

\* C12: the chunks come in document order: read one after the other, their
\* letters never go back to an earlier word of the input, and no letter
\* occurs more often than in the input.
C12_DocumentOrder ==
    pc = "segmented" =>
        LET out == LettersOf(Concat(chunks))
        IN /\ \A i \in 1..(Len(out) - 1) : WordOf(out[i]) <= WordOf(out[i+1])
           /\ \A c \in Range(out) : CountOf(c, out) <= CountOf(c, text)

\* C12 witness: under the paragraph strategy a single paragraph was replaced
\* by three lower-level pieces, one per word.
C12_Witness ==
    /\ pc = "segmented" /\ strategy = "paragraphs"
    /\ "\n" \notin Range(text)
    /\ Len(chunks) = 3
    /\ \A i \in 1..3 : Letters[i] \in Range(chunks[i])

\* C16: the allocation has one budget per chunk; every budget but the last
\* is max(1, floor(total * len(chunk) / total characters)), the last is the
\* total minus the others; an empty chunk list gets an empty allocation.
C16_BudgetFormula ==
    pc = "allocated" =>
        LET n == Len(chunks)
            total_size == SumSeq(ChunkSizes(chunks))
        IN /\ Len(questions_per_chunk) = n
           /\ \A i \in 1..(n - 1) :
                  questions_per_chunk[i] =
                      Max(1, (num_questions * Len(chunks[i])) \div total_size)
           /\ n >= 1 =>
                  questions_per_chunk[n] =
                      num_questions
                      - SumSeq(SubSeq(questions_per_chunk, 1, n - 1))

\* what the calls before call number i returned, and the first pass in all
ReturnedBefore(i) == Concat([j \in 1..(i - 1) |-> calls[j].ret])
FirstPassTotal ==
    Len(Concat([j \in 1..Len(calls) |->
                   IF calls[j].phase = "first" THEN calls[j].ret ELSE << >>]))
BackfillOrdinal(i) == Cardinality({j \in CallsOf("backfill") : j <= i})
ChunksCalledFirst == {calls[i].chunk : i \in CallsOf("first")}

\* C13: the backfill runs exactly when the first pass left fewer than
\* num_questions questions; every backfill call is made with a shortfall
\* above zero and asks for min(shortfall, 3), the shortfall being
\* num_questions minus what has been accumulated when the call is made.
C13_Backfill ==
    path = "chunked" =>
        /\ \A i \in CallsOf("backfill") :
               LET short == num_questions - Len(ReturnedBefore(i))
               IN short > 0 /\ calls[i].count = Min(short, 3)
        /\ pc = "backfill" =>
               /\ FirstPassTotal < num_questions
               /\ remaining = num_questions - Len(all_questions)
        /\ pc = "done" =>
               (CallsOf("backfill") # {}
                    <=> (FirstPassTotal < num_questions /\ chunks # << >>))

\* C13 witness: with a shortfall of 4 the first backfill call asked for 3 and
\* got 2, and the second asked for the 2 still missing.
C13_Witness ==
    /\ path = "chunked" /\ pc = "done"
    /\ \E i, j \in CallsOf("backfill") :
           /\ i < j
           /\ num_questions - Len(ReturnedBefore(i)) = 4
           /\ calls[i].count = 3 /\ Len(calls[i].ret) = 2
           /\ calls[j].count = 2

\* C14: at most two backfill calls are made; the k-th goes to a chunk that
\* fewer than k chunks exceed in length, the first to one at least as long
\* as the second's; and when the result stays short, min(2, chunks) backfill
\* calls were made whatever happened to those chunks in the first pass.
C14_BackfillTargets ==
    path = "chunked" =>
        /\ Cardinality(CallsOf("backfill")) <= 2
        /\ \A i \in CallsOf("backfill") :
               Cardinality({c \in 1..Len(chunks) :
                               Len(chunks[c]) > Len(chunks[calls[i].chunk])})
                   < BackfillOrdinal(i)
        /\ \A i, j \in CallsOf("backfill") :
               i < j =>
                   /\ calls[i].chunk # calls[j].chunk
                   /\ Len(chunks[calls[i].chunk]) >= Len(chunks[calls[j].chunk])
        /\ (pc = "done" /\ Len(all_questions) < num_questions) =>
               {calls[i].chunk : i \in CallsOf("backfill")} =
                   {c \in 1..Len(chunks) :
                       Cardinality({d \in 1..Len(chunks) :
                                       \/ Len(chunks[d]) > Len(chunks[c])
                                       \/ Len(chunks[d]) = Len(chunks[c]) /\ d < c})
                           < 2}

\* C14 witness: the first backfill call went to the longer chunk, which the
\* first pass had skipped for its budget, the second to a shorter chunk
\* whose first-pass call had failed.
C14_Witness ==
    /\ path = "chunked" /\ pc = "done"
    /\ \E i, j \in CallsOf("backfill") :
           /\ i < j
           /\ questions_per_chunk[calls[i].chunk] <= 0
           /\ Len(chunks[calls[i].chunk]) > Len(chunks[calls[j].chunk])
           /\ \E f \in CallsOf("first") :
                  calls[f].chunk = calls[j].chunk /\ ~calls[f].ok

\* C15: the first pass calls, in chunk order and once each, exactly the
\* chunks whose budget is above zero, each with its own text and budget.
C15_FirstPass ==
    path = "chunked" =>
        /\ \A i \in CallsOf("first") :
               /\ questions_per_chunk[calls[i].chunk] > 0
               /\ calls[i].count = questions_per_chunk[calls[i].chunk]
               /\ calls[i].arg = chunks[calls[i].chunk]
        /\ \A i, j \in CallsOf("first") :
               i < j => calls[i].chunk < calls[j].chunk
        /\ pc = "first_pass" =>
               ChunksCalledFirst =
                   {c \in 1..(idx - 1) : questions_per_chunk[c] > 0}
        /\ pc \in {"backfill", "done"} =>
               ChunksCalledFirst =
                   {c \in 1..Len(chunks) : questions_per_chunk[c] > 0}

\* C15 witness: a finished first pass over three chunks in which one call
\* failed, a later one succeeded and one chunk was skipped for its budget.
C15_Witness ==
    /\ path = "chunked" /\ pc \in {"backfill", "done"}
    /\ Len(chunks) = 3
    /\ \E c \in 1..3 : questions_per_chunk[c] <= 0
    /\ \E i, j \in CallsOf("first") : i < j /\ ~calls[i].ok /\ calls[j].ok

\* C17: on the direct path there is one call, made with the whole text and
\* num_questions, nothing is segmented, allocated or accumulated, and what
\* the call returns is the result.
C17_DirectPath ==
    path = "single" =>
        /\ chunks = << >> /\ questions_per_chunk = << >>
        /\ all_questions = << >> /\ ranked = << >>
        /\ Len(calls) <= 1
        /\ \A i \in 1..Len(calls) :
               /\ calls[i].phase = "single"
               /\ calls[i].arg = text
               /\ calls[i].count = num_questions
        /\ pc = "done" =>
               Len(calls) = 1 /\ calls[1].ok /\ result = calls[1].ret

\* C17 witness: the direct call returned more than was asked for and the
\* result is all of it.
C17_Witness ==
    /\ path = "single" /\ pc = "done"
    /\ Len(calls) = 1
    /\ Len(result) > num_questions

\* the paragraph the loop of chunk_by_paragraphs is about to take
NextParagraph == Strip(paragraphs[idx])

\* C18: when the next paragraph would overflow the current chunk, a
\* non-empty current chunk is emitted and the paragraph becomes the current
\* chunk; with an empty current chunk the chunks of the sentence strategy
\* for that paragraph are emitted and the current chunk stays empty.
C18_OverflowStep ==
    [][(/\ pc = "paragraphs"
        /\ idx <= Len(paragraphs)
        /\ NextParagraph # << >>
        /\ Len(current_chunk) + Len(NextParagraph) > max_chunk_size)
       => IF current_chunk # << >>
          THEN /\ chunks' = Append(chunks, current_chunk)
               /\ current_chunk' = NextParagraph
          ELSE /\ chunks' =
                      chunks \o chunk_by_sentences(NextParagraph, max_chunk_size)
               /\ current_chunk' = << >>]_vars

\* C18 witness: the first paragraph, too long on its own, was replaced by its
\* sentence-strategy chunks; the third overflowed the chunk holding the
\* second, which was emitted, and is now the current chunk.
C18_Witness ==
    /\ pc = "paragraphs" /\ idx = 4
    /\ Len(Strip(paragraphs[1])) > max_chunk_size
    /\ Len(chunks) = 2
    /\ <<chunks[1]>> = chunk_by_sentences(Strip(paragraphs[1]), max_chunk_size)
    /\ chunks[2] = Strip(paragraphs[2])
    /\ current_chunk = Strip(paragraphs[3])
    /\ Len(chunks[2]) + Len(current_chunk) > max_chunk_size

\* C19: after _split_by_words, every word of the text longer than
\* max_chunk_size appears among the chunks cut to its first max_chunk_size
\* characters.
C19_LongWordTruncated ==
    pc = "words_split" =>
        \A word \in Range(SplitWords(text)) :
            Len(word) > max_chunk_size =>
                SubSeq(word, 1, max_chunk_size) \in Range(chunks)

\* C20 as stated: every chunk returned by smart_chunk_text is longer than 50
\* characters once trimmed.
C20_Original ==
    pc = "segmented" =>
        \A i \in 1..Len(chunks) : Len(Strip(chunks[i])) > MinChunkLen

\* C20, amended: a text whose trimmed length is at most max_chunk_size comes
\* back whole as the only chunk, whatever its length; for every longer text
\* each returned chunk is longer than 50 characters once trimmed.
C20_MinLength ==
    pc = "segmented" =>
        IF Len(Strip(text)) <= max_chunk_size
        THEN chunks = <<Strip(text)>>
        ELSE \A i \in 1..Len(chunks) : Len(Strip(chunks[i])) > MinChunkLen

\* C20 witness: a text above the limit of which a short piece was dropped
\* and a longer one returned.
C20_Witness ==
    /\ pc = "segmented"
    /\ Len(Strip(text)) > max_chunk_size
    /\ chunks # << >>
    /\ Len(chunks) < Len(EmittedChunks)

\* C21: for a single paragraph of 6000 characters and a limit of 4000,
\* chunk_by_paragraphs returns what chunk_by_sentences returns for the
\* paragraph: at least two chunks, none longer than 4000 characters.
C21_LongParagraph ==
    pc = "paragraphs_done" =>
        /\ chunks = chunk_by_sentences(Strip(text), max_chunk_size)
        /\ Len(chunks) >= 2
        /\ \A i \in 1..Len(chunks) : Len(chunks[i]) <= max_chunk_size

\* C22: a request that entered the first pass reaches its return provided
\* every call returns or raises; the first pass is left only after the last
\* chunk, each pass moves forward one position at a time, and neither pass
\* is entered again once left.
C22_RunsToCompletion ==
    /\ (path = "chunked" /\ pc = "first_pass") ~> (pc = "done")
    /\ [][/\ pc = "first_pass" =>
                /\ pc' \in {"first_pass", "backfill", "done"}
                /\ pc' = "first_pass" => idx' = idx + 1
                /\ pc' # "first_pass" => idx > Len(chunks)
          /\ pc = "backfill" =>
                /\ pc' \in {"backfill", "done"}
                /\ pc' = "backfill" => idx' = idx + 1
          /\ pc = "done" => pc' = "done"]_vars

\* C22 witness: a returned request whose first pass called every one of
\* three chunks and whose backfill made both of its calls, with a failure in
\* each pass.
C22_Witness ==
    /\ path = "chunked" /\ pc = "done"
    /\ Len(chunks) = 3
    /\ Cardinality(CallsOf("first")) = 3
    /\ Cardinality(CallsOf("backfill")) = 2
    /\ \E i \in CallsOf("first") : ~calls[i].ok
    /\ \E i \in CallsOf("backfill") : ~calls[i].ok

IsPrefix(s, t) == Len(s) <= Len(t) /\ SubSeq(t, 1, Len(s)) = s

\* C23: while the two loops run, every step leaves the questions already
\* accumulated where they are, new ones coming after them, and leaves the
\* chunk list and the budget list as they were computed.
C23_AccumulatorGrows ==
    [][(pc = "first_pass" \/ pc = "backfill") =>
          /\ chunks' = chunks
          /\ questions_per_chunk' = questions_per_chunk
          /\ IsPrefix(all_questions, all_questions')]_vars

\* C23 witness: the accumulator grew in the first pass and again in the
\* backfill, beyond the requested number, before the final cut.
C23_Witness ==
    /\ path = "chunked" /\ pc = "done"
    /\ Len(result) < Len(all_questions)
    /\ \E i \in CallsOf("first") : calls[i].ok
    /\ \E i \in CallsOf("backfill") : calls[i].ok

\* the questions returned by the successful calls of request r, in order
OwnQuestions(r) ==
    Concat([i \in 1..Len(calls) |->
               IF calls[i].by = r /\ calls[i].ok THEN calls[i].ret ELSE << >>])

\* C24: whatever the interleaving, a request that returned has returned what
\* it returns alone for the answers its own calls got (the answer of its
\* direct call, or the first num_questions questions of its own calls), and
\* its accumulator holds the questions of its own calls only.
C24_Independent ==
    \A r \in Requests :
        /\ path[r] = "chunked" => all_questions[r] = OwnQuestions(r)
        /\ pc[r] = "done" =>
               result[r] = IF path[r] = "chunked"
                           THEN ReturnSlice(OwnQuestions(r), num_questions[r])
                           ELSE OwnQuestions(r)

\* C24 witness: both requests went through the chunked path and returned
\* questions, and the calls of one lie between the calls of the other.
C24_Witness ==
    /\ \A r \in Requests :
           path[r] = "chunked" /\ pc[r] = "done" /\ result[r] # << >>
    /\ \E i, j, k \in 1..Len(calls) :
           /\ i < j /\ j < k
           /\ calls[i].by = calls[k].by /\ calls[j].by # calls[i].by
           /\ calls[i].ok /\ calls[j].ok /\ calls[k].ok

\* C25: on the chunked path every call of the model asks for at least one
\* question: a first-pass call for the budget of its chunk, which is at least
\* 1, and a backfill call for between 1 and 3, remaining being the positive
\* difference between num_questions and the size of the accumulator whenever
\* a backfill call is made.
C25_PositiveCounts ==
    /\ \A i \in CallsOf("first") :
           /\ calls[i].count = questions_per_chunk[calls[i].chunk]
           /\ calls[i].count >= 1
    /\ \A i \in CallsOf("backfill") : calls[i].count \in 1..3
    /\ (pc = "backfill" /\ idx <= Len(TopChunks(ranked))
            /\ Len(all_questions) < num_questions) =>
           /\ remaining = num_questions - Len(all_questions)
           /\ remaining > 0

\* C25 witness: a chunk with a budget of 0 was passed over, and after a first
\* pass that brought nothing the backfill asked for 1 question.
C25_Witness ==
    /\ path = "chunked" /\ pc = "done"
    /\ \E c \in 1..Len(chunks) : questions_per_chunk[c] = 0
    /\ \A i \in CallsOf("first") : ~calls[i].ok
    /\ \E i \in CallsOf("backfill") : calls[i].count = 1 /\ calls[i].ok

\* C26: a request on the chunked path never makes more calls of the model
\* than the number of chunks plus min(2, number of chunks): no chunk gets
\* more than one first-pass call or more than one backfill call, and the
\* backfill makes at most two calls.
C26_CallBound ==
    path = "chunked" =>
        /\ Len(calls) <= Len(chunks) + Min(2, Len(chunks))
        /\ Cardinality(CallsOf("backfill")) <= 2
        /\ \A c \in 1..Len(chunks) :
               /\ Cardinality({i \in CallsOf("first") : calls[i].chunk = c}) <= 1
               /\ Cardinality({i \in CallsOf("backfill") : calls[i].chunk = c}) <= 1

\* C26 witness: three chunks and five calls, the bound itself.
C26_Witness ==
    /\ path = "chunked" /\ pc = "done"
    /\ Len(chunks) = 3
    /\ Len(calls) = 5

\* no call has returned more questions than it was asked for
GeneratorWithin == \A i \in 1..Len(calls) : Len(calls[i].ret) <= calls[i].count

\* C27: when no call returns more than it was asked for, the backfill adds
\* at most 6 questions to what the first pass accumulated, and a request
\* whose first pass left more than 6 questions missing returns fewer than
\* num_questions questions.
C27_BackfillCap ==
    (path = "chunked" /\ GeneratorWithin) =>
        /\ Len(all_questions) - FirstPassTotal <= 6
        /\ (pc = "done" /\ num_questions - FirstPassTotal > 6) =>
               Len(result) < num_questions

\* C27 witness: the first pass left more than 6 questions missing, both
\* backfill calls returned the 3 questions they were asked for, and the
\* request returned 6 questions more than the first pass had.
C27_Witness ==
    /\ path = "chunked" /\ pc = "done" /\ GeneratorWithin
    /\ num_questions - FirstPassTotal > 6
    /\ Cardinality(CallsOf("backfill")) = 2
    /\ \A i \in CallsOf("backfill") : calls[i].ok /\ Len(calls[i].ret) = 3
    /\ Len(result) = FirstPassTotal + 6

\* C28: on the direct path a call of the model that raises ends the request
\* with an error and nothing is returned, while on the chunked path no
\* request ends with an error, whichever of its calls raise.
C28_DirectFailure ==
    /\ (path = "single" /\ \E i \in 1..Len(calls) : ~calls[i].ok) =>
           pc = "failed" /\ result = << >>
    /\ path = "chunked" => pc # "failed"
    /\ pc = "failed" => Len(calls) = 1 /\ ~calls[1].ok

\* C28 witness: a request on the direct path whose only call raised.
C28_Witness ==
    /\ path = "single" /\ pc = "failed"
    /\ Len(calls) = 1 /\ ~calls[1].ok /\ calls[1].phase = "single"
    /\ result = << >>

\* chunks that share nothing with cs but the lengths
LengthsOnly(cs) == [i \in 1..Len(cs) |-> Run("x", Len(cs[i]))]

\* C29: the backfill ranking lists the chunks by decreasing length and, among
\* chunks of equal length, by position in the document; it is the ranking of
\* any chunk list with the same lengths, and the backfill calls go to its
\* first two entries in that order.
C29_TiesByPosition ==
    (path = "chunked" /\ ranked # << >>) =>
        /\ \A a, b \in 1..Len(ranked) :
               a < b =>
                   \/ Len(chunks[ranked[a]]) > Len(chunks[ranked[b]])
                   \/ /\ Len(chunks[ranked[a]]) = Len(chunks[ranked[b]])
                      /\ ranked[a] < ranked[b]
        /\ ranked = SortBySizeDesc(LengthsOnly(chunks))
        /\ \A i \in CallsOf("backfill") :
               calls[i].chunk = ranked[BackfillOrdinal(i)]

\* C29 witness: three chunks of one length, of which the first two got the
\* backfill calls, in document order.
C29_Witness ==
    /\ path = "chunked" /\ pc = "done"
    /\ Len(chunks) = 3
    /\ \A c \in 1..3 : Len(chunks[c]) = Len(chunks[1])
    /\ Len(calls) = 5
    /\ calls[4].phase = "backfill" /\ calls[4].chunk = 1
    /\ calls[5].phase = "backfill" /\ calls[5].chunk = 2

\* C30: the allocation for a chunk list returned by smart_chunk_text never
\* raises ZeroDivisionError: a list of two or more chunks, the only kind for
\* which size / total_size is evaluated, has only chunks of more than 50
\* characters and so a total size above zero, and the allocation returns one
\* budget per chunk.
C30_NoZeroDivision ==
    /\ pc # "failed"
    /\ pc \in {"segmented", "allocated"} =>
           /\ ~DistributeRaises(chunks)
           /\ Len(chunks) >= 2 =>
                  /\ \A i \in 1..Len(chunks) : Len(chunks[i]) > MinChunkLen
                  /\ SumSeq(ChunkSizes(chunks)) > 0
    /\ pc = "allocated" => Len(questions_per_chunk) = Len(chunks)

\* C30 witness: budgets were computed for three chunks, two of them by the
\* division.
C30_Witness ==
    /\ pc = "allocated"
    /\ Len(chunks) = 3
    /\ Len(questions_per_chunk) = 3

====
